---- MODULE Spec2Model ----
(***************************************************************************)
(* The power-control bridge of virtualbmc: the handlers that the IPMI      *)
(* engine calls on VBoxVirtualBMC (vboxvbmc.py) and VirtualBMC (vbmc.py),  *)
(* the VBoxManage invocations they issue, and the parsing of the two       *)
(* listings into a power state.                                            *)
(*                                                                         *)
(* Text is modelled character by character: a string is a sequence of      *)
(* one-character strings, so that str.splitlines and the regular           *)
(* expression of get_list_vms are computed, not assumed.  The output of    *)
(* the tool is a text string, as the regular expression (compiled from a   *)
(* text pattern) requires: Python 2's str, which Popen.communicate returns *)
(* there.                                                                  *)
(*                                                                         *)
(* The hypervisor is the environment: VMs are registered, started, stopped *)
(* and unregistered out of band (VirtualBox unregisters only a VM that is  *)
(* powered off), and each invocation of the tool may fail to start, exit   *)
(* nonzero, or succeed.                                                    *)
(***************************************************************************)
EXTENDS Integers, Sequences, FiniteSets, TLC

VARIABLES
    domain_name,   \* self.domain_name, fixed at construction
    variant,       \* which class the adapter is: "vbox" (VBoxVirtualBMC) or "vbmc" (VirtualBMC)
    vm,            \* the hypervisor: VM name -> "absent" | "off" | "on"
    pc,            \* position of the adapter: "idle", inside a handler, "done", "raised"
    op,            \* the handler being (or last) executed
    result,        \* local `result` of get_list_vms (dead between calls)
    invocations,   \* the Invocation Results of the current call, in order
    ret,           \* what the handler returned
    exc,           \* the exception raised inside the handler's try block, or "none"
    seen,          \* history: run-states the adapter's VM had during the current get_power_state call
    offHist        \* history: outcomes of consecutive power_off calls on an undisturbed, powered-off VM

vars == <<domain_name, variant, vm, pc, op, result, invocations, ret, exc, seen, offHist>>

----------------------------------------------------------------------------
(* Bounds of the model *)

\* lines per arbitrary listing output (SpecParse)
MaxLines == 2
\* how many consecutive power_off calls offHist remembers
OffCallsTracked == 2

----------------------------------------------------------------------------
(* Program constants *)

POWEROFF == 0
POWERON == 1
\* 0xd5, "Command not supported in present state"
NOT_SUPPORTED == 213
\* 0xC0, the IPMI "node busy" completion code; it occurs nowhere in the source
NODE_BUSY == 12 * 16

----------------------------------------------------------------------------
(* Characters and text *)

Q == "\""
SP == " "
LB == "{"
RB == "}"
NL == "\n"
CR == "\r"

\* VM names: an ordinary one, and one that itself contains quote-space-brace
NameA == <<"a">>
NameT == <<"a", Q, SP, LB, "b">>
VmNames == {NameA, NameT}

Uuid(n) == IF n = NameA THEN <<"1">> ELSE <<"2">>

Max(S) == CHOOSE x \in S : \A y \in S : y <= x
Min(S) == CHOOSE x \in S : \A y \in S : x <= y

\* one line of VBoxManage's listing: the quoted name, a space, the uuid in braces
ListingLine(n, u) == <<Q>> \o n \o <<Q, SP, LB>> \o u \o <<RB>>

RECURSIVE JoinLines(_)
JoinLines(ls) == IF ls = <<>> THEN <<>> ELSE Head(ls) \o <<NL>> \o JoinLines(Tail(ls))

\* str.splitlines(): breaks at \n, \r and \r\n, no empty last line
RECURSIVE SplitAcc(_, _, _)
SplitAcc(text, cur, acc) ==
    IF text = <<>> THEN (IF cur = <<>> THEN acc ELSE Append(acc, cur))
    ELSE IF Head(text) = NL THEN SplitAcc(Tail(text), <<>>, Append(acc, cur))
    ELSE IF Head(text) = CR THEN
        IF Len(text) >= 2 /\ text[2] = NL
        THEN SplitAcc(Tail(Tail(text)), <<>>, Append(acc, cur))
        ELSE SplitAcc(Tail(text), <<>>, Append(acc, cur))
    ELSE SplitAcc(Tail(text), Append(cur, Head(text)), acc)

splitlines(text) == SplitAcc(text, <<>>, <<>>)

----------------------------------------------------------------------------
\* The regular expression of get_list_vms and regex.search(line): a quote,
\* group 1 (any characters), a quote, a space, an opening brace, group 2 (any
\* characters), a closing brace, anchored at both ends of the line.

\* positions where the  " {  between the two groups can stand
SplitPoints(line) ==
    {i \in 2..(Len(line) - 3) : line[i] = Q /\ line[i+1] = SP /\ line[i+2] = LB}

RegexMatches(line) ==
    /\ Len(line) >= 5
    /\ line[1] = Q
    /\ line[Len(line)] = RB
    /\ SplitPoints(line) # {}

\* a bug: the first group matched lazily
Group1Lazy(line) == SubSeq(line, 2, Min(SplitPoints(line)) - 1)

\* dom.group(1): the first group is greedy, it extends to the last quote-space-brace
Group1(line) == SubSeq(line, 2, Max(SplitPoints(line)) - 1)

----------------------------------------------------------------------------
(* The dictionary `result` *)

EmptyDict == <<>>

DictSet(d, k, v) == [x \in (DOMAIN d) \cup {k} |-> IF x = k THEN v ELSE d[x]]

\* a bug: the dictionary survives from the previous call
StaleResult == result

\* result = {}
InitialResult == EmptyDict

\* a bug: a running VM recorded as POWEROFF
RunningStateOff == POWEROFF

\* result[dom.group(1)] = POWERON
RunningState == POWERON

\* for line in out.splitlines(): dom = regex.search(line); if dom is not None: result[...] = state
RECURSIVE ParseLines(_, _, _)
ParseLines(d, ls, state) ==
    IF ls = <<>> THEN d
    ELSE ParseLines(IF RegexMatches(Head(ls)) THEN DictSet(d, Group1(Head(ls)), state) ELSE d,
                    Tail(ls), state)

ParseInto(d, out, state) == ParseLines(d, splitlines(out), state)

----------------------------------------------------------------------------
(* What a handler hands back to the IPMI engine *)

\* `return <n>`
RetInt(n) == [kind |-> "int", val |-> n]
\* falling off the end of the method: Python's None
RetNone == [kind |-> "None", val |-> 0]
\* nothing returned (yet)
RetUnset == [kind |-> "unset", val |-> 0]

\* a bug: only the dictionary lookup's error is caught
CatchesKeyErrorOnly(e) == e = "KeyError"

\* `except Exception as e`: OSError, ValueError and KeyError are all Exceptions
Catches(e) == e \in {"OSError", "ValueError", "KeyError"}

\* a bug: the handlers answer "node busy"
ExceptReturnBusy == NODE_BUSY

\* `return 0xd5` in every except block
ExceptReturn == NOT_SUPPORTED

\* a bug: a missing name read with a default, vms.get(self.domain_name, POWEROFF)
LookupDefaultOff(d, n) ==
    IF n \in DOMAIN d THEN [raised |-> "none", val |-> d[n]]
    ELSE [raised |-> "none", val |-> POWEROFF]

\* vms[self.domain_name]: the value, or KeyError
Lookup(d, n) ==
    IF n \in DOMAIN d THEN [raised |-> "none", val |-> d[n]]
    ELSE [raised |-> "KeyError", val |-> 0]

\* shlex.split(options) raises ValueError ("No closing quotation") when the
\* double quotes of the string do not pair up; the fixed words of the command
\* lines hold none, so only the VM name decides
ShlexRaises(n) == Cardinality({i \in DOMAIN n : n[i] = Q}) % 2 = 1

----------------------------------------------------------------------------
(* The hypervisor's management tool, as seen through subprocess.Popen *)

Listed(which) ==
    IF which = "vms" THEN {n \in VmNames : vm[n] # "absent"}
    ELSE {n \in VmNames : vm[n] = "on"}

\* the orders in which the tool may print a set of VMs
RECURSIVE Orders(_)
Orders(S) ==
    IF S = {} THEN {<<>>}
    ELSE UNION {{<<n>> \o rest : rest \in Orders(S \ {n})} : n \in S}

Renderings(S) ==
    {JoinLines([i \in DOMAIN o |-> ListingLine(o[i], Uuid(o[i]))]) : o \in Orders(S)}

\* output that holds no listing line at all: a message of the tool
NoiseLine == <<"W", "A", "R", "N">>
Malformed == {JoinLines(<<NoiseLine>>)}

ListCmd(which) == [verb |-> "list", target |-> <<>>, arg |-> which]
ControlCmd(n, what) == [verb |-> "controlvm", target |-> n, arg |-> what]
StartCmd(n) == [verb |-> "startvm", target |-> n, arg |-> "--type headless"]

\* Popen raised OSError: the executable could not be started (status and out are unused)
LaunchError(cmd) ==
    [cmd |-> cmd, kind |-> "oserror", status |-> 0, out |-> <<>>]

\* `list vms` / `list runningvms` against the hypervisor: the true listing with
\* exit 0, a failure (nonzero exit, nothing printed), output without any
\* listing line, or no launch at all
HypervisorList(which) ==
    {LaunchError(ListCmd(which))}
    \cup {[cmd |-> ListCmd(which), kind |-> "ok", status |-> 0, out |-> t] :
            t \in Renderings(Listed(which))}
    \cup {[cmd |-> ListCmd(which), kind |-> "fail", status |-> 1, out |-> <<>>]}
    \cup {[cmd |-> ListCmd(which), kind |-> "garbled", status |-> 0, out |-> t] :
            t \in Malformed}

\* the lines arbitrary output is made of: listing lines of the two names, a
\* line whose braces hold a quote, a line with a leading space
OddLines ==
    { ListingLine(NameA, Uuid(NameA)),
      ListingLine(NameT, Uuid(NameT)),
      ListingLine(NameA, <<Q>>),
      <<SP>> \o ListingLine(NameA, Uuid(NameA)) }

Texts == {JoinLines(ls) : ls \in UNION {[1..k -> OddLines] : k \in 0..MaxLines}}

\* any exit status with any text
ArbitraryList(which) ==
    {[cmd |-> ListCmd(which), kind |-> "text", status |-> st, out |-> t] :
        st \in {0, 1}, t \in Texts}

\* a control command on VM n: what the tool answers, and the hypervisor afterwards.
\* `from` is the run-state the command needs, `to` the run-state it leaves.
ToolEffect(cmd, n, from, to) ==
    {[inv |-> LaunchError(cmd), vm |-> vm]}
    \cup {[inv |-> [cmd |-> cmd, kind |-> "fail", status |-> 1, out |-> <<>>], vm |-> vm]}
    \cup (IF vm[n] = from
          THEN {[inv |-> [cmd |-> cmd, kind |-> "ok", status |-> 0, out |-> <<>>],
                 vm |-> [vm EXCEPT ![n] = to]]}
          ELSE {})

----------------------------------------------------------------------------
(* The handlers *)

Callable == pc \in {"idle", "done"}

\* where an exception raised inside the try block leaves the handler
PcAfter(e) == IF Catches(e) THEN "done" ELSE "raised"
RetAfter(e) == IF Catches(e) THEN RetInt(ExceptReturn) ELSE RetUnset

RunStates == {"absent", "off", "on"}

\* get_power_state, up to and including the first loop of get_list_vms
GetPowerStateFirst(outcomes) ==
    /\ Callable
    /\ op' = "get_power_state"
    /\ seen' = {vm[domain_name]}
    /\ offHist' = <<>>
    /\ \E r \in outcomes :
        /\ invocations' = <<r>>
        /\ IF r.kind = "oserror"
           THEN /\ exc' = "OSError"
                /\ pc' = PcAfter("OSError")
                /\ ret' = RetAfter("OSError")
                /\ result' = InitialResult
           ELSE /\ exc' = "none"
                /\ pc' = "list_runningvms"
                /\ ret' = RetUnset
                /\ result' = ParseInto(InitialResult, r.out, POWEROFF)
    /\ UNCHANGED <<domain_name, variant, vm>>

\* get_power_state, from the second invocation of get_list_vms to the return
GetPowerStateSecond(outcomes) ==
    /\ pc = "list_runningvms"
    /\ \E r \in outcomes :
        /\ invocations' = Append(invocations, r)
        /\ IF r.kind = "oserror"
           THEN /\ exc' = "OSError"
                /\ pc' = PcAfter("OSError")
                /\ ret' = RetAfter("OSError")
                /\ result' = result
           ELSE LET d == ParseInto(result, r.out, RunningState)
                    l == Lookup(d, domain_name)
                IN  /\ result' = d
                    /\ exc' = l.raised
                    /\ pc' = IF l.raised = "none" THEN "done" ELSE PcAfter(l.raised)
                    /\ ret' = IF l.raised = "none" THEN RetInt(l.val) ELSE RetAfter(l.raised)
    /\ UNCHANGED <<domain_name, variant, vm, op, seen, offHist>>

GetPowerStateListVms == GetPowerStateFirst(HypervisorList("vms"))
GetPowerStateListRunningVms == GetPowerStateSecond(HypervisorList("runningvms"))

\* the body of a handler that issues one control command
OneCommand(h, cmd, from, to) ==
    /\ Callable
    /\ op' = h
    /\ IF ShlexRaises(domain_name)
       THEN /\ invocations' = <<>>
            /\ vm' = vm
            /\ exc' = "ValueError"
            /\ pc' = PcAfter("ValueError")
            /\ ret' = RetAfter("ValueError")
       ELSE \E e \in ToolEffect(cmd, domain_name, from, to) :
            /\ invocations' = <<e.inv>>
            /\ vm' = e.vm
            /\ IF e.inv.kind = "oserror"
               THEN /\ exc' = "OSError"
                    /\ pc' = PcAfter("OSError")
                    /\ ret' = RetAfter("OSError")
               ELSE /\ exc' = "none"
                    /\ pc' = "done"
                    /\ ret' = RetNone
    /\ UNCHANGED <<domain_name, variant, result, seen>>

\* the last entries of offHist that are kept when one more is added
Recent(h) == IF Len(h) < OffCallsTracked THEN h ELSE SubSeq(h, Len(h) - OffCallsTracked + 2, Len(h))

PowerOff ==
    /\ OneCommand("power_off", ControlCmd(domain_name, "poweroff"), "on", "off")
    /\ offHist' = IF vm[domain_name] = "off"
                  THEN Append(Recent(offHist),
                              [kind |-> IF invocations' = <<>> THEN "not_run" ELSE invocations'[1].kind,
                               status |-> IF invocations' = <<>> THEN 0 ELSE invocations'[1].status,
                               pc |-> pc', ret |-> ret'])
                  ELSE <<>>

PowerOn ==
    /\ OneCommand("power_on", StartCmd(domain_name), "off", "on")
    /\ offHist' = <<>>

PowerReset ==
    /\ variant = "vbox"
    /\ OneCommand("power_reset", ControlCmd(domain_name, "reset"), "on", "on")
    /\ offHist' = <<>>

\* the button press is delivered; whether the guest then shuts down is VmStop
PowerShutdown ==
    /\ OneCommand("power_shutdown", ControlCmd(domain_name, "acpipowerbutton"), "on", "on")
    /\ offHist' = <<>>

\* power_cycle up to time.sleep(1)
PowerCycleOff ==
    /\ variant = "vbox"
    /\ Callable
    /\ op' = "power_cycle"
    /\ offHist' = <<>>
    /\ IF ShlexRaises(domain_name)
       THEN /\ invocations' = <<>>
            /\ vm' = vm
            /\ exc' = "ValueError"
            /\ pc' = PcAfter("ValueError")
            /\ ret' = RetAfter("ValueError")
       ELSE \E e \in ToolEffect(ControlCmd(domain_name, "poweroff"), domain_name, "on", "off") :
            /\ invocations' = <<e.inv>>
            /\ vm' = e.vm
            /\ IF e.inv.kind = "oserror"
               THEN /\ exc' = "OSError"
                    /\ pc' = PcAfter("OSError")
                    /\ ret' = RetAfter("OSError")
               ELSE /\ exc' = "none"
                    /\ pc' = "cycle_sleep"
                    /\ ret' = RetUnset
    /\ UNCHANGED <<domain_name, variant, result, seen>>

\* power_cycle after time.sleep(1)
PowerCycleOn ==
    /\ pc = "cycle_sleep"
    /\ \E e \in ToolEffect(StartCmd(domain_name), domain_name, "off", "on") :
        /\ invocations' = Append(invocations, e.inv)
        /\ vm' = e.vm
        /\ IF e.inv.kind = "oserror"
           THEN /\ exc' = "OSError"
                /\ pc' = PcAfter("OSError")
                /\ ret' = RetAfter("OSError")
           ELSE /\ exc' = "none"
                /\ pc' = "done"
                /\ ret' = RetNone
    /\ UNCHANGED <<domain_name, variant, op, result, seen, offHist>>

----------------------------------------------------------------------------
(* Out-of-band changes of the hypervisor *)

OutOfBand(n, from, to) ==
    /\ vm[n] = from
    /\ vm' = [vm EXCEPT ![n] = to]
    /\ seen' = IF n = domain_name /\ pc = "list_runningvms" THEN seen \cup {to} ELSE seen
    /\ offHist' = IF n = domain_name THEN <<>> ELSE offHist
    /\ UNCHANGED <<domain_name, variant, pc, op, result, invocations, ret, exc>>

VmCreate == \E n \in VmNames : OutOfBand(n, "absent", "off")
VmStart == \E n \in VmNames : OutOfBand(n, "off", "on")
VmStop == \E n \in VmNames : OutOfBand(n, "on", "off")
VmRemove == \E n \in VmNames : OutOfBand(n, "off", "absent")

----------------------------------------------------------------------------
(* Specifications *)

Init ==
    /\ domain_name \in VmNames
    /\ variant \in {"vbox", "vbmc"}
    /\ vm \in [VmNames -> RunStates]
    /\ pc = "idle"
    /\ op = "none"
    /\ result = EmptyDict
    /\ invocations = <<>>
    /\ ret = RetUnset
    /\ exc = "none"
    /\ seen = {}
    /\ offHist = <<>>

Next ==
    \/ GetPowerStateListVms
    \/ GetPowerStateListRunningVms
    \/ PowerOff
    \/ PowerOn
    \/ PowerReset
    \/ PowerShutdown
    \/ PowerCycleOff
    \/ PowerCycleOn
    \/ VmCreate
    \/ VmStart
    \/ VmStop
    \/ VmRemove

Spec == Init /\ [][Next]_vars

\* one get_power_state call on arbitrary listing text
ParseListVms == pc = "idle" /\ GetPowerStateFirst(ArbitraryList("vms"))
ParseListRunningVms == GetPowerStateSecond(ArbitraryList("runningvms"))

InitParse ==
    /\ Init
    /\ vm = [n \in VmNames |-> "absent"]

NextParse ==
    \/ ParseListVms
    \/ ParseListRunningVms

SpecParse == InitParse /\ [][NextParse]_vars

----------------------------------------------------------------------------
(* Vocabulary of the claims *)

\* the line reads: quote, n, quote, space, opening brace, anything, closing brace
Mentions(line, n) ==
    /\ Len(line) >= Len(n) + 5
    /\ SubSeq(line, 1, Len(n) + 4) = <<Q>> \o n \o <<Q, SP, LB>>
    /\ line[Len(line)] = RB

\* the line is the listing line of VM n: what the braces hold is a uuid, so it has
\* no quote, space or brace in it
IsLineFor(line, n) ==
    /\ Mentions(line, n)
    /\ \A i \in (Len(n) + 5)..(Len(line) - 1) : line[i] \notin {Q, SP, LB, RB}

HasLineFor(text, n) == LET ls == splitlines(text) IN \E i \in DOMAIN ls : IsLineFor(ls[i], n)
MentionedIn(text, n) == LET ls == splitlines(text) IN \E i \in DOMAIN ls : Mentions(ls[i], n)

\* get_power_state has returned after both listings were read
GpsReturned ==
    /\ pc = "done"
    /\ op = "get_power_state"
    /\ Len(invocations) = 2
    /\ invocations[2].kind # "oserror"

FullOut == invocations[1].out
RunOut == invocations[2].out

PowerHandlers == {"power_on", "power_off", "power_cycle", "power_reset", "power_shutdown"}

\* the last invocation of the current call could not be started
LaunchFailed ==
    /\ pc \in {"done", "raised"}
    /\ op \in PowerHandlers
    /\ invocations # <<>>
    /\ invocations[Len(invocations)].kind = "oserror"

\* a returned value that is a completion code other than success
IsFailureCode(r) == r.kind = "int" /\ r.val # 0

RunStateOf(r) == IF r = RetInt(POWERON) THEN "on" ELSE "off"

----------------------------------------------------------------------------
(* The claims *)

\* C1: whatever else the two listings hold, get_power_state returns ON (1) when
\* the listing line of its VM is in both listings, and OFF (0) when that line is
\* in the full listing and no line of the running listing names the VM.
C1_ListingDecidesState ==
    GpsReturned =>
        /\ (HasLineFor(FullOut, domain_name) /\ HasLineFor(RunOut, domain_name))
              => ret = RetInt(POWERON)
        /\ (HasLineFor(FullOut, domain_name) /\ ~MentionedIn(RunOut, domain_name))
              => ret = RetInt(POWEROFF)

\* C1 witness: the VM whose name holds quote-space-brace is listed second of two
\* VMs in the full listing, only the other VM is running, and OFF was returned.
C1_Witness ==
    /\ GpsReturned
    /\ domain_name = NameT
    /\ FullOut = JoinLines(<<ListingLine(NameA, Uuid(NameA)), ListingLine(NameT, Uuid(NameT))>>)
    /\ RunOut = JoinLines(<<ListingLine(NameA, Uuid(NameA))>>)
    /\ ret = RetInt(POWEROFF)

\* C2: when no line of either listing names the VM, get_power_state returns
\* 0xd5 and not the state 0.
C2_AbsentIsNotOff ==
    (GpsReturned /\ ~MentionedIn(FullOut, domain_name) /\ ~MentionedIn(RunOut, domain_name))
        => (ret = RetInt(NOT_SUPPORTED) /\ ret # RetInt(POWEROFF))

\* C2 witness: the full listing holds another VM only, the running listing
\* nothing, and 0xd5 was returned.
C2_Witness ==
    /\ GpsReturned
    /\ domain_name = NameT
    /\ FullOut = JoinLines(<<ListingLine(NameA, Uuid(NameA))>>)
    /\ RunOut = <<>>
    /\ ret = RetInt(NOT_SUPPORTED)

\* C3: in a power_cycle whose poweroff invocation failed (it could not be
\* started, or it exited nonzero), no startvm invocation follows and the
\* handler returns a code other than success.
C3_CycleAbortsOnPoweroffFailure ==
    (op = "power_cycle" /\ pc = "done" /\ invocations # <<>>
        /\ invocations[1].kind \in {"oserror", "fail"})
        => /\ Len(invocations) = 1
           /\ IsFailureCode(ret)

\* C4: when the startvm command of power_on exits nonzero, the handler returns
\* the "node busy" code.
C4_PowerOnNonzeroIsBusy ==
    (op = "power_on" /\ pc = "done" /\ invocations # <<>> /\ invocations[1].kind = "fail")
        => ret = RetInt(NODE_BUSY)

\* C5: no handler lets an exception escape, whatever the tool does: every
\* finished call has returned 0, 1 or 0xd5 (get_power_state), or 0xd5 or
\* nothing, which is Python's None (the other handlers).
C5_NothingEscapes ==
    /\ pc # "raised"
    /\ pc = "done" =>
          IF op = "get_power_state"
          THEN ret \in {RetInt(POWEROFF), RetInt(POWERON), RetInt(NOT_SUPPORTED)}
          ELSE ret \in {RetNone, RetInt(NOT_SUPPORTED)}

\* C5 witness: the second invocation of power_cycle could not be started, and
\* the handler has returned.
C5_Witness ==
    /\ pc = "done"
    /\ op = "power_cycle"
    /\ Len(invocations) = 2
    /\ exc = "OSError"

C7_InventoryIsFresh ==
    /\ (op = "get_power_state" /\ pc \in {"list_runningvms", "done"})
          => (invocations # <<>> /\ invocations[1].cmd = ListCmd("vms"))
    /\ GpsReturned =>
          /\ invocations[2].cmd = ListCmd("runningvms")
          /\ LET d == ParseInto(ParseInto(EmptyDict, FullOut, POWEROFF), RunOut, POWERON)
             IN  ret = IF domain_name \in DOMAIN d THEN RetInt(d[domain_name])
                       ELSE RetInt(NOT_SUPPORTED)

\* C7 witness: a call during which the VM changed out of band has returned OFF
\* from two true listings, after the VM had been seen running.
C7_Witness ==
    /\ GpsReturned
    /\ invocations[1].kind = "ok"
    /\ invocations[2].kind = "ok"
    /\ "on" \in seen
    /\ ret = RetInt(POWEROFF)
    /\ vm[domain_name] = "on"

\* C8: after two consecutive power_off calls on a VM that was off, neither call
\* raised, each returned what its invocation's exit says (no failure code for
\* exit 0, a failure code otherwise), and the VM is off.
C8_PowerOffTwiceReportsExit ==
    Len(offHist) >= 2 =>
        /\ vm[domain_name] = "off"
        /\ \A i \in DOMAIN offHist :
              /\ offHist[i].pc = "done"
              /\ (offHist[i].kind = "ok") => ~IsFailureCode(offHist[i].ret)
              /\ (offHist[i].kind # "ok") => IsFailureCode(offHist[i].ret)

\* C9: a state 0 or 1 that get_power_state returns from two true listings is a
\* run-state its VM had at some instant of the call.
C9_ResultWasTrueDuringCall ==
    (GpsReturned /\ invocations[1].kind = "ok" /\ invocations[2].kind = "ok"
        /\ ret \in {RetInt(POWEROFF), RetInt(POWERON)})
        => RunStateOf(ret) \in seen

\* C9 witness: the VM was running when `list vms` ran, was stopped and removed
\* before `list runningvms` ran, and OFF was returned.
C9_Witness ==
    /\ GpsReturned
    /\ invocations[1].kind = "ok"
    /\ invocations[2].kind = "ok"
    /\ seen = {"on", "off", "absent"}
    /\ vm[domain_name] = "absent"
    /\ ret = RetInt(POWEROFF)

\* C10: get_power_state does not return OFF (0) for a VM that was running
\* during the whole call.
C10_RunningIsNeverOff ==
    (op = "get_power_state" /\ pc = "done" /\ seen = {"on"}) => ret # RetInt(POWEROFF)

====
